---- MODULE Spec2Model ----
(***************************************************************************)
(* Product-Photo-Fusion: the orchestration of src/App.tsx (image           *)
(* selection, suggestion fetch, fusion attempt, reset, download) around    *)
(* the two service calls of src/services/geminiService.ts.                 *)
(*                                                                         *)
(* JavaScript strings are sequences of tokens, so that concatenation,      *)
(* split and trim are computed rather than assumed.  null / undefined is   *)
(* the record Null; an uploaded image is the number of its file, 0 for     *)
(* null.                                                                   *)
(***************************************************************************)
EXTENDS Integers, Sequences, FiniteSets, Bags, TLC

\* ------------------------------------------------------------------ bounds
\* suggestion fetches, fusion attempts and downloads pending together
MaxPending == 2
\* content segments in a candidate of a fusion response
MaxParts == 2
\* characters in the instruction text passed to generateFusedImage
MaxPromptLen == 2

\* --------------------------------------------------------------- JS values
Null == [null |-> TRUE]

\* the files the user picks among: two, so that a pair of images can be
\* replaced by a different pair
Files == { 1, 2 }

\* File.type of the file picked: the files alternate between two media types
FileType(f) == IF f % 2 = 1 THEN "image/png" ELSE "image/jpeg"

\* the two service functions
SuggestFn == "generatePromptSuggestions"

FuseFn == "generateFusedImage"

\* the base64 text of the bytes of file f
FileBytes(f) == "bytes of file " \o ToString(f)

\* FileReader.readAsDataURL: "data:<type>;base64,<bytes>"
readAsDataURL(f) == <<"data:", FileType(f), ";base64", ",", FileBytes(f)>>

RECURSIVE SplitFrom(_, _, _)
\* the pieces of s (from position i on) between the occurrences of sep
SplitFrom(s, sep, i) ==
  IF i > Len(s) THEN << <<>> >>
  ELSE LET rest == SplitFrom(s, sep, i + 1)
       IN IF s[i] = sep THEN << <<>> >> \o rest
          ELSE << <<s[i]>> \o Head(rest) >> \o Tail(rest)

\* String.prototype.split with a one-character separator
split(s, sep) == SplitFrom(s, sep, 1)

\* fileToBase64's onload: (reader.result as string).split(',')[1]
fileToBase64(f) == Head(split(readAsDataURL(f), ",")[2])

\* characters of the instruction text
Chars == {" ", "a"}

RECURSIVE StringsUpTo(_)
StringsUpTo(n) ==
  IF n = 0 THEN { <<>> }
  ELSE LET shorter == StringsUpTo(n - 1)
       IN shorter \cup { Append(s, c) : s \in shorter, c \in Chars }

Prompts == StringsUpTo(MaxPromptLen)

RECURSIVE trimStart(_)
trimStart(s) == IF s # <<>> /\ Head(s) = " " THEN trimStart(Tail(s)) ELSE s

RECURSIVE trimEnd(_)
trimEnd(s) ==
  IF s # <<>> /\ s[Len(s)] = " " THEN trimEnd(SubSeq(s, 1, Len(s) - 1)) ELSE s

\* String.prototype.trim
trim(s) == trimEnd(trimStart(s))

aspectRatios == <<"original", "1:1", "16:9", "9:16", "4:3", "3:4">>

\* the ratio buttons pressed here: the default and one other
Ratios == { aspectRatios[1], aspectRatios[2] }

\* the texts typed into the textarea here: nothing, or an instruction
TypedTexts == { <<>>, <<"a">> }

staticSuggestions ==
  << <<"Make the character wear the item">>,
     <<"Have the character hold the object">>,
     <<"Place the item on the character's head">>,
     <<"Integrate the product into the scene">> >>

\* ------------------------------------------------- geminiService.ts: values
\* a thrown value: an Error with a message, or (isError FALSE) the
\* ProgressEvent a failed FileReader rejects with
ErrorOf(msg) == [isError |-> TRUE, message |-> msg]

ApiKeyMessage == <<"API_KEY environment variable not set">>

SafetyMessage == <<"SAFETY_POLICY_VIOLATION">>

NoImageMessage ==
  <<"No image was generated", ". The model may have refused the prompt.">>

\* what the SDK throws when the request itself fails
TransportMessage == <<"fetch failed">>

\* what JSON.parse throws
SyntaxMessage == <<"Unexpected token in JSON">>

\* what reading a property of null throws
TypeMessage == <<"Cannot read properties of null">>

ReadFailure == [isError |-> FALSE, message |-> <<>>]

\* how a call settles: it returns a value or throws; while it is pending it
\* is [call |-> its frame]
Returned(v) == [value |-> v]

Threw(e) == [error |-> e]

Pending(call) == [call |-> call]

IsReturned(o) == "value" \in DOMAIN o

IsThrown(o) == "error" \in DOMAIN o

IsPending(o) == "call" \in DOMAIN o

\* process.env.API_KEY: absent (the empty sequence, falsy) or a key
ApiKeys == { <<>>, <<"key">> }

\* ----------------------------------------- the fusion response (lines 109-119)
TextPart == [inlineData |-> Null, text |-> <<"Here is your image">>]

ImagePart(mimeType, data) ==
  [inlineData |-> [data |-> data, mimeType |-> mimeType], text |-> <<>>]

PartChoices ==
  { TextPart,
    ImagePart(<<"image/png">>, <<"AAAA">>),
    ImagePart(<<"image/jpeg">>, <<"BBBB">>) }

RECURSIVE SeqsUpTo(_, _)
SeqsUpTo(S, n) ==
  IF n = 0 THEN { <<>> }
  ELSE LET shorter == SeqsUpTo(S, n - 1)
       IN shorter \cup { Append(s, x) : s \in shorter, x \in S }

\* an array that may be absent: Null, or [items |-> the elements]
Array(s) == [items |-> s]

Contents ==
  { Null, [parts |-> Null] }
    \cup { [parts |-> Array(s)] : s \in SeqsUpTo(PartChoices, MaxParts) }

\* finishReason: absent (empty), a normal stop, or the safety stop
FinishReasons == { <<>>, <<"STOP">>, <<"SAFETY">> }

Candidates == [finishReason : FinishReasons, content : Contents]

\* what may follow the first candidate
LaterCandidates ==
  { [finishReason |-> <<"SAFETY">>, content |-> Null],
    [finishReason |-> <<"STOP">>,
     content |-> [parts |-> Array(<<ImagePart(<<"image/webp">>, <<"CCCC">>)>>)]] }

CandidateLists ==
  { Null, Array(<<>>) }
    \cup { Array(<<c>>) : c \in Candidates }
    \cup { Array(<<c, d>>) : c \in Candidates, d \in LaterCandidates }

PromptFeedbacks ==
  { Null, [blockReason |-> <<>>], [blockReason |-> <<"SAFETY">>],
    [blockReason |-> <<"OTHER">>] }

FusionResponses == [promptFeedback : PromptFeedbacks, candidates : CandidateLists]

\* response.promptFeedback?.blockReason (undefined is the empty string here)
blockReason(response) ==
  IF response.promptFeedback = Null THEN <<>>
  ELSE response.promptFeedback.blockReason

\* response.candidates?.[0]
firstCandidate(response) ==
  IF response.candidates = Null THEN Null
  ELSE IF response.candidates.items = <<>> THEN Null
  ELSE response.candidates.items[1]

\* response.candidates?.[0]?.finishReason
finishReason(response) ==
  IF firstCandidate(response) = Null THEN <<>>
  ELSE firstCandidate(response).finishReason

\* response.candidates?.[0]?.content?.parts ?? []
partsOf(response) ==
  LET c == firstCandidate(response)
  IN IF c = Null THEN <<>>
     ELSE IF c.content = Null THEN <<>>
     ELSE IF c.content.parts = Null THEN <<>>
     ELSE c.content.parts.items

\* the condition of line 109
isBlocked(response) ==
  blockReason(response) # <<>> \/ finishReason(response) = <<"SAFETY">>

\* `data:${mimeType};base64,${base64ImageBytes}`
dataUrl(part) ==
  <<"data:">> \o part.inlineData.mimeType \o <<";base64,">> \o part.inlineData.data

RECURSIVE scanPartsLastMatch(_, _)
\* the scan with last-match: a later image-bearing segment replaces an earlier
scanPartsLastMatch(parts, i) ==
  IF i > Len(parts) THEN Threw(ErrorOf(NoImageMessage))
  ELSE LET later == scanPartsLastMatch(parts, i + 1)
       IN IF IsReturned(later) THEN later
          ELSE IF parts[i].inlineData # Null THEN Returned(dataUrl(parts[i]))
          ELSE later

RECURSIVE scanPartsNoThrow(_, _)
\* the scan without the throw of line 121: the function falls off its end
scanPartsNoThrow(parts, i) ==
  IF i > Len(parts) THEN Returned(<<>>)
  ELSE IF parts[i].inlineData # Null THEN Returned(dataUrl(parts[i]))
  ELSE scanPartsNoThrow(parts, i + 1)

RECURSIVE scanParts(_, _)
\* the for loop of lines 113-119, from segment i on, and the throw of line 121
scanParts(parts, i) ==
  IF i > Len(parts) THEN Threw(ErrorOf(NoImageMessage))
  ELSE IF parts[i].inlineData # Null THEN Returned(dataUrl(parts[i]))
  ELSE scanParts(parts, i + 1)

\* the block check made only when the scan finds no image
fusedImageOfScanFirst(response) ==
  LET found == scanParts(partsOf(response), 1)
  IN IF IsReturned(found) THEN found
     ELSE IF isBlocked(response) THEN Threw(ErrorOf(SafetyMessage))
     ELSE found

\* generateFusedImage from the response on (lines 109-121)
fusedImageOf(response) ==
  IF isBlocked(response) THEN Threw(ErrorOf(SafetyMessage))
  ELSE scanParts(partsOf(response), 1)

\* ------------------------------------- the suggestion response (lines 48-49)
\* the strings the service proposes for the pair (c, p)
SuggestionsFor(c, p) ==
  << <<"suggestion 1 for ", ToString(c), ToString(p)>>,
     <<"suggestion 2 for ", ToString(c), ToString(p)>> >>

\* response.text: malformed, or the text of a JSON value
SuggestionTexts(c, p) ==
  { [wellFormed |-> FALSE, json |-> Null],
    [wellFormed |-> TRUE, json |-> Null],
    [wellFormed |-> TRUE, json |-> [suggestions |-> Null]],
    [wellFormed |-> TRUE, json |-> [suggestions |-> Array(<<>>)]],
    [wellFormed |-> TRUE, json |-> [suggestions |-> Array(SuggestionsFor(c, p))]] }

\* JSON.parse
JSONparse(text) ==
  IF text.wellFormed THEN Returned(text.json) ELSE Threw(ErrorOf(SyntaxMessage))

\* generatePromptSuggestions from the response on (lines 48-49)
suggestionsOf(text) ==
  LET jsonResponse == JSONparse(text)
  IN IF IsThrown(jsonResponse) THEN jsonResponse
     ELSE IF jsonResponse.value = Null THEN Threw(ErrorOf(TypeMessage))
     ELSE IF jsonResponse.value.suggestions = Null THEN Returned(<<>>)
     ELSE Returned(jsonResponse.value.suggestions.items)

\* ---------------------------------------- geminiService.ts: the two calls
InlineData(data, mimeType) == [inlineData |-> [data |-> data, mimeType |-> mimeType]]

\* the prompt of line 22
suggestionPrompt == <<"Analyze the following two images. ... array of strings.">>

defaultInstruction ==
  <<"Make the character from the first image interact with or use the product from the second image.">>

\* line 64 without the trim: only the empty text gives the default
userInstructionNoTrim(userPrompt) ==
  IF userPrompt # <<>> THEN userPrompt ELSE defaultInstruction

\* line 64: userPrompt && userPrompt.trim() !== '' ? userPrompt : defaultInstruction
userInstruction(userPrompt) ==
  IF userPrompt # <<>> /\ trim(userPrompt) # <<>> THEN userPrompt
  ELSE defaultInstruction

\* the template of lines 66-80
fusionPrompt(userPrompt) ==
  <<"You are an expert image editor. ... **Goal:** ">>
    \o userInstruction(userPrompt)
    \o <<"**Image 1 (Character Image):** ... **Image 2 (Product Image):** ...",
         "**Strict Rules:** 1. Combine 2. Full Product Integration 3. High-Fidelity Detail Transfer 4. Preserve Style",
         "5. **Preserve Dimensions:** The final image MUST have the same dimensions and aspect ratio as the Character Image (Image 1).",
         "6. **No Additions**">>

\* the argument of ai.models.generateContent (lines 24-46 and 83-107)
requestOf(call) ==
  LET images ==
        << InlineData(call.characterBase64, FileType(call.characterImageFile)),
           InlineData(call.productBase64, FileType(call.productImageFile)) >>
  IN IF call.fn = SuggestFn
     THEN [model |-> "gemini-2.5-flash",
           parts |-> images \o << [text |-> suggestionPrompt] >>,
           config |-> "responseMimeType application/json, responseSchema {suggestions: string[]}"]
     ELSE [model |-> "gemini-2.5-flash-image",
           parts |-> images \o << [text |-> fusionPrompt(call.userPrompt)] >>,
           config |-> "responseModalities IMAGE, TEXT"]

\* the frame of a call that passed the credential check and started reading
\* the character file (lines 17-19 and 58-60)
newCall(fn, characterImageFile, productImageFile, userPrompt) ==
  [fn |-> fn,
   characterImageFile |-> characterImageFile,
   productImageFile |-> productImageFile,
   userPrompt |-> userPrompt,
   pc |-> "read1",
   characterBase64 |-> "",
   productBase64 |-> "",
   request |-> Null]

\* the call without the credential check
startCallUnchecked(key, fn, characterImageFile, productImageFile, userPrompt) ==
  Pending(newCall(fn, characterImageFile, productImageFile, userPrompt))

\* a service function up to its first await (lines 13-19 and 54-60)
startCall(key, fn, characterImageFile, productImageFile, userPrompt) ==
  IF key = <<>> THEN Threw(ErrorOf(ApiKeyMessage))
  ELSE Pending(newCall(fn, characterImageFile, productImageFile, userPrompt))

\* generatePromptSuggestions(characterImageFile, productImageFile)
generatePromptSuggestions(key, characterImageFile, productImageFile) ==
  startCall(key, SuggestFn, characterImageFile, productImageFile, <<>>)

\* generateFusedImage(characterImageFile, productImageFile, userPrompt): the
\* function declares three parameters
generateFusedImage(key, characterImageFile, productImageFile, userPrompt) ==
  startCall(key, FuseFn, characterImageFile, productImageFile, userPrompt)

\* a FileReader finishes, its onerror not set: the failed read gives no text
\* and the call goes on
readDoneUnrejected(call, ok) ==
  IF call.pc = "read1"
  THEN Pending([call EXCEPT !.pc = "read2",
                            !.characterBase64 =
                               IF ok THEN fileToBase64(call.characterImageFile) ELSE ""])
  ELSE LET read == [call EXCEPT !.pc = "call",
                                !.productBase64 =
                                   IF ok THEN fileToBase64(call.productImageFile) ELSE ""]
       IN Pending([read EXCEPT !.request = requestOf(read)])

\* a FileReader finishes: onload (ok) or onerror (lines 7-8), and the call
\* goes on to its next await (lines 19-24 and 60-83)
readDone(call, ok) ==
  IF ~ok THEN Threw(ReadFailure)
  ELSE IF call.pc = "read1"
  THEN Pending([call EXCEPT !.pc = "read2",
                            !.characterBase64 = fileToBase64(call.characterImageFile)])
  ELSE LET read == [call EXCEPT !.pc = "call",
                                !.productBase64 = fileToBase64(call.productImageFile)]
       IN Pending([read EXCEPT !.request = requestOf(read)])

\* what ai.models.generateContent settles with: a failure of the request, or
\* a response
TransportFailure == [failed |-> TRUE, response |-> Null]

Response(r) == [failed |-> FALSE, response |-> r]

\* generateContent settles and the call runs to its end (lines 48-49 and
\* 109-121)
responded(call, r) ==
  IF r.failed THEN Threw(ErrorOf(TransportMessage))
  ELSE IF call.fn = SuggestFn THEN suggestionsOf(r.response.text)
  ELSE fusedImageOf(r.response)

\* the responses the service may give to a call
ResponsesTo(call) ==
  { TransportFailure }
    \cup IF call.fn = SuggestFn
         THEN { Response([text |-> t]) :
                  t \in SuggestionTexts(call.characterImageFile, call.productImageFile) }
         ELSE { Response(r) : r \in FusionResponses }

\* -------------------------------------------------------------------- state
VARIABLES
  apiKey,                \* process.env.API_KEY
  characterImage,        \* App.tsx:71, the file of the image, 0 for null
  productImage,          \* App.tsx:72
  prompt,                \* App.tsx:73
  generatedImage,        \* App.tsx:74, the empty string for null
  isLoading,             \* App.tsx:75
  error,                 \* App.tsx:76
  dynamicSuggestions,    \* App.tsx:81
  isSuggestionsLoading,  \* App.tsx:82
  outputAspectRatio,     \* App.tsx:84
  suggestionFetches,     \* the pending fetchSuggestions, a bag of call frames
  fusionAttempts,        \* the pending handleGenerate, their number
  downloads,             \* the pending handleDownload, a bag of stages
  svc                    \* one service call followed step by step

appVars ==
  <<characterImage, productImage, prompt, generatedImage, isLoading, error,
    dynamicSuggestions, isSuggestionsLoading, outputAspectRatio,
    suggestionFetches, fusionAttempts, downloads>>

vars == <<apiKey, appVars, svc>>

\* no image selected
NoImage == 0

\* generatedImage when null: a string | null state that is only ever tested
\* for truthiness, which null and '' share
NoUrl == <<>>

\* the state of the component when it mounts (App.tsx:71-84)
AppInit ==
  /\ characterImage = NoImage
  /\ productImage = NoImage
  /\ prompt = <<>>
  /\ generatedImage = NoUrl
  /\ isLoading = FALSE
  /\ error = Null
  /\ dynamicSuggestions = <<>>
  /\ isSuggestionsLoading = FALSE
  /\ outputAspectRatio = "original"
  /\ suggestionFetches = EmptyBag
  /\ fusionAttempts = 0
  /\ downloads = EmptyBag

\* no service call is being followed
SvcIdle == [stage |-> "idle"]

\* ------------------------------------------------------- App.tsx: handlers
ErrorState(title, message) == [title |-> title, message |-> message]

MissingImages ==
  ErrorState("Missing Images",
             "Please upload both a character and a product image before generating.")

ContentPolicyViolation ==
  ErrorState("Content Policy Violation",
             "The request was blocked because the prompt or images may have violated safety policies.")

GenerationUnsuccessful ==
  ErrorState("Image Generation Unsuccessful",
             "The model was unable to generate an image.")

SomethingWentWrong ==
  ErrorState("Oops! Something Went Wrong", "An unexpected error occurred.")

DownloadFailed(message) == ErrorState("Download Failed", message)

\* String.prototype.includes
includes(s, sub) ==
  \E i \in 0 .. (Len(s) - Len(sub)) : SubSeq(s, i + 1, i + Len(sub)) = sub

\* the catch of handleGenerate (App.tsx:128-146)
errorFor(e) ==
  LET errorMessage == IF e.isError THEN e.message
                      ELSE <<"An unknown error occurred.">>
  IN IF errorMessage = SafetyMessage THEN ContentPolicyViolation
     ELSE IF includes(errorMessage, <<"No image was generated">>)
     THEN GenerationUnsuccessful
     ELSE SomethingWentWrong

\* the button also disabled while the suggestions are loading
isButtonDisabledWhileSuggesting ==
  characterImage = NoImage \/ productImage = NoImage \/ isLoading
    \/ isSuggestionsLoading

\* App.tsx:217
isButtonDisabled ==
  characterImage = NoImage \/ productImage = NoImage \/ isLoading

\* App.tsx:218
suggestionsToShow ==
  IF Len(dynamicSuggestions) > 0 THEN dynamicSuggestions ELSE staticSuggestions

\* the bag b with one more x, and with one x less
Add(b, x) == b (+) SetToBag({x})

Remove(b, x) == b (-) SetToBag({x})

\* what a pending call may do next: one file read ends, or the request settles
NextOutcomes(call) ==
  IF call.pc \in {"read1", "read2"} THEN { readDone(call, ok) : ok \in BOOLEAN }
  ELSE { responded(call, r) : r \in ResponsesTo(call) }

RECURSIVE settle(_)
\* every way a pending call may end, its reads and its request run to the end
settle(call) ==
  UNION { IF IsPending(o) THEN settle(o.call) ELSE {o} : o \in NextOutcomes(call) }

\* the frames the handlers start
StartedCalls ==
  { newCall(SuggestFn, c, p, <<>>) : c \in Files, p \in Files }
    \cup { newCall(FuseFn, c, p, text) : c \in Files, p \in Files, text \in TypedTexts }

\* settle, tabulated.  Between its start and its end a call reads and writes
\* nothing of the component, so the component sees it only start and end;
\* SpecService follows the steps in between.
Settlements == [call \in StartedCalls |-> settle(call)]

\* how a call of generateFusedImage may end.  Its arguments decide the
\* request it sends and nothing of how it ends, so the component keeps the
\* number of its pending attempts and not their frames.
FusionSettlements ==
  UNION { Settlements[call] : call \in { c \in StartedCalls : c.fn = FuseFn } }

\* the calls pending in the component
pending ==
  BagCardinality(suggestionFetches) + fusionAttempts
    + BagCardinality(downloads)

\* the effect without setDynamicSuggestions([]) (App.tsx:97): the suggestions
\* fetched before stay until the new fetch delivers
fetchSuggestionsKeepOld(c, p) ==
  IF c # NoImage /\ p # NoImage
  THEN LET started == generatePromptSuggestions(apiKey, c, p)
       IN /\ UNCHANGED dynamicSuggestions
          /\ IF IsPending(started)
             THEN /\ pending < MaxPending
                  /\ isSuggestionsLoading' = TRUE
                  /\ suggestionFetches' = Add(suggestionFetches, started.call)
             ELSE /\ isSuggestionsLoading' = FALSE
                  /\ UNCHANGED suggestionFetches
  ELSE UNCHANGED <<dynamicSuggestions, isSuggestionsLoading, suggestionFetches>>

\* the effect of App.tsx:93-110, run with the images c and p of the new
\* render: fetchSuggestions up to its await, and its catch and finally when
\* the call throws at once
fetchSuggestions(c, p) ==
  IF c # NoImage /\ p # NoImage
  THEN LET started == generatePromptSuggestions(apiKey, c, p)
       IN /\ dynamicSuggestions' = <<>>
          /\ IF IsPending(started)
             THEN /\ pending < MaxPending
                  /\ isSuggestionsLoading' = TRUE
                  /\ suggestionFetches' = Add(suggestionFetches, started.call)
             ELSE /\ isSuggestionsLoading' = FALSE
                  /\ UNCHANGED suggestionFetches
  ELSE UNCHANGED <<dynamicSuggestions, isSuggestionsLoading, suggestionFetches>>

\* onImageUpload of the character uploader (App.tsx:237), and the effect
setCharacterImage(f) ==
  /\ characterImage' = f
  /\ fetchSuggestions(f, productImage)
  /\ UNCHANGED <<apiKey, productImage, prompt, generatedImage, isLoading, error,
                 outputAspectRatio, fusionAttempts, downloads, svc>>

\* onImageUpload of the product uploader (App.tsx:242), and the effect
setProductImage(f) ==
  /\ productImage' = f
  /\ fetchSuggestions(characterImage, f)
  /\ UNCHANGED <<apiKey, characterImage, prompt, generatedImage, isLoading, error,
                 outputAspectRatio, fusionAttempts, downloads, svc>>

\* the textarea's onChange (App.tsx:254)
setPrompt(text) ==
  /\ prompt' = text
  /\ UNCHANGED <<apiKey, characterImage, productImage, generatedImage, isLoading,
                 error, dynamicSuggestions, isSuggestionsLoading,
                 outputAspectRatio, suggestionFetches, fusionAttempts, downloads,
                 svc>>

\* an aspect-ratio button (App.tsx:275)
setOutputAspectRatio(ratio) ==
  /\ outputAspectRatio' = ratio
  /\ UNCHANGED <<apiKey, characterImage, productImage, prompt, generatedImage,
                 isLoading, error, dynamicSuggestions, isSuggestionsLoading,
                 suggestionFetches, fusionAttempts, downloads, svc>>

\* handleGenerate without the check of App.tsx:114-120
handleGenerateUnchecked ==
  /\ LET started == generateFusedImage(apiKey, characterImage, productImage, prompt)
     IN /\ generatedImage' = NoUrl
        /\ IF IsPending(started)
           THEN /\ pending < MaxPending
                /\ error' = Null
                /\ isLoading' = TRUE
                /\ fusionAttempts' = fusionAttempts + 1
           ELSE /\ error' = errorFor(started.error)
                /\ isLoading' = FALSE
                /\ UNCHANGED fusionAttempts
  /\ UNCHANGED <<apiKey, characterImage, productImage, prompt, dynamicSuggestions,
                 isSuggestionsLoading, outputAspectRatio, suggestionFetches,
                 downloads, svc>>

\* handleGenerate up to its await (App.tsx:113-126), and its catch and
\* finally when the call throws at once; outputAspectRatio is passed as a
\* fourth argument, which generateFusedImage does not declare
handleGenerate ==
  /\ IF characterImage = NoImage \/ productImage = NoImage
     THEN /\ error' = MissingImages
          /\ UNCHANGED <<generatedImage, isLoading, fusionAttempts>>
     ELSE LET started == generateFusedImage(apiKey, characterImage, productImage,
                                            prompt)
          IN /\ generatedImage' = NoUrl
             /\ IF IsPending(started)
                THEN /\ pending < MaxPending
                     /\ error' = Null
                     /\ isLoading' = TRUE
                     /\ fusionAttempts' = fusionAttempts + 1
                ELSE /\ error' = errorFor(started.error)
                     /\ isLoading' = FALSE
                     /\ UNCHANGED fusionAttempts
  /\ UNCHANGED <<apiKey, characterImage, productImage, prompt, dynamicSuggestions,
                 isSuggestionsLoading, outputAspectRatio, suggestionFetches,
                 downloads, svc>>

\* the Generate button (App.tsx:290-296), which is disabled by isButtonDisabled
ClickGenerate == ~isButtonDisabled /\ handleGenerate

\* handleReset without setError(null) and setOutputAspectRatio('original')
handleResetPartial ==
  /\ characterImage' = NoImage
  /\ productImage' = NoImage
  /\ generatedImage' = NoUrl
  /\ prompt' = <<>>
  /\ isLoading' = FALSE
  /\ dynamicSuggestions' = <<>>
  /\ UNCHANGED <<apiKey, error, outputAspectRatio, isSuggestionsLoading,
                 suggestionFetches, fusionAttempts, downloads, svc>>

\* handleReset (App.tsx:152-161), and the effect, which finds no images
handleReset ==
  /\ characterImage' = NoImage
  /\ productImage' = NoImage
  /\ generatedImage' = NoUrl
  /\ prompt' = <<>>
  /\ error' = Null
  /\ isLoading' = FALSE
  /\ dynamicSuggestions' = <<>>
  /\ outputAspectRatio' = "original"
  /\ UNCHANGED <<apiKey, isSuggestionsLoading, suggestionFetches, fusionAttempts,
                 downloads, svc>>

\* the Reset button, rendered under the condition of App.tsx:297
ClickReset ==
  /\ \/ characterImage # NoImage
     \/ productImage # NoImage
     \/ generatedImage # NoUrl
     \/ prompt # <<>>
  /\ handleReset

\* the await of a pending fetchSuggestions ends with o and the rest of
\* App.tsx:99-106 runs
SuggestionSettles(call, o) ==
  /\ BagIn(call, suggestionFetches)
  /\ o \in Settlements[call]
  /\ suggestionFetches' = Remove(suggestionFetches, call)
  /\ dynamicSuggestions' = IF IsReturned(o) THEN o.value ELSE dynamicSuggestions
  /\ isSuggestionsLoading' = FALSE
  /\ UNCHANGED <<apiKey, characterImage, productImage, prompt, generatedImage,
                 isLoading, error, outputAspectRatio, fusionAttempts, downloads, svc>>

\* a pending fetchSuggestions ends
SuggestionStep ==
  \E call \in BagToSet(suggestionFetches) :
    \E o \in Settlements[call] : SuggestionSettles(call, o)

\* the rest of handleGenerate without its finally (App.tsx:147-149)
FusionSettlesNoFinally(o) ==
  /\ fusionAttempts > 0
  /\ o \in FusionSettlements
  /\ fusionAttempts' = fusionAttempts - 1
  /\ generatedImage' = IF IsReturned(o) THEN o.value ELSE generatedImage
  /\ error' = IF IsThrown(o) THEN errorFor(o.error) ELSE error
  /\ UNCHANGED <<apiKey, characterImage, productImage, prompt, dynamicSuggestions,
                 isSuggestionsLoading, outputAspectRatio, suggestionFetches,
                 downloads, svc, isLoading>>

\* the await of a pending handleGenerate ends with o and the rest of
\* App.tsx:127-149 runs
FusionSettles(o) ==
  /\ fusionAttempts > 0
  /\ o \in FusionSettlements
  /\ fusionAttempts' = fusionAttempts - 1
  /\ generatedImage' = IF IsReturned(o) THEN o.value ELSE generatedImage
  /\ error' = IF IsThrown(o) THEN errorFor(o.error) ELSE error
  /\ isLoading' = FALSE
  /\ UNCHANGED <<apiKey, characterImage, productImage, prompt, dynamicSuggestions,
                 isSuggestionsLoading, outputAspectRatio, suggestionFetches,
                 downloads, svc>>

\* a pending handleGenerate ends
FusionStep == \E o \in FusionSettlements : FusionSettles(o)

\* handleDownload up to image.src (App.tsx:163-167); the button is rendered
\* with the image (App.tsx:315)
handleDownload ==
  /\ generatedImage # NoUrl
  /\ ~isLoading
  /\ pending < MaxPending
  /\ downloads' = Add(downloads, "load")
  /\ UNCHANGED <<apiKey, characterImage, productImage, prompt, generatedImage,
                 isLoading, error, dynamicSuggestions, isSuggestionsLoading,
                 outputAspectRatio, suggestionFetches, fusionAttempts, svc>>

\* image.onerror (App.tsx:208-213)
DownloadImageError ==
  /\ BagIn("load", downloads)
  /\ downloads' = Remove(downloads, "load")
  /\ error' = DownloadFailed("Could not load the generated image for processing.")
  /\ UNCHANGED <<apiKey, characterImage, productImage, prompt, generatedImage,
                 isLoading, dynamicSuggestions, isSuggestionsLoading,
                 outputAspectRatio, suggestionFetches, fusionAttempts, svc>>

\* image.onload (App.tsx:168-207): without a 2d context the download fails,
\* with one canvas.toBlob is started
DownloadImageLoad(hasContext) ==
  /\ BagIn("load", downloads)
  /\ IF hasContext
     THEN /\ downloads' = Add(Remove(downloads, "load"), "toBlob")
          /\ UNCHANGED error
     ELSE /\ downloads' = Remove(downloads, "load")
          /\ error' = DownloadFailed("Could not create an image canvas to process the download.")
  /\ UNCHANGED <<apiKey, characterImage, productImage, prompt, generatedImage,
                 isLoading, dynamicSuggestions, isSuggestionsLoading,
                 outputAspectRatio, suggestionFetches, fusionAttempts, svc>>

\* the callback of canvas.toBlob (App.tsx:187-203)
DownloadBlob(hasBlob) ==
  /\ BagIn("toBlob", downloads)
  /\ downloads' = Remove(downloads, "toBlob")
  /\ error' = IF hasBlob THEN error
              ELSE DownloadFailed("Could not convert the image for download.")
  /\ UNCHANGED <<apiKey, characterImage, productImage, prompt, generatedImage,
                 isLoading, dynamicSuggestions, isSuggestionsLoading,
                 outputAspectRatio, suggestionFetches, fusionAttempts, svc>>

Init ==
  /\ apiKey \in ApiKeys
  /\ AppInit
  /\ svc = SvcIdle

Next ==
  \/ \E f \in Files : setCharacterImage(f)
  \/ \E f \in Files : setProductImage(f)
  \/ \E text \in TypedTexts : setPrompt(text)
  \/ \E ratio \in Ratios : setOutputAspectRatio(ratio)
  \/ ClickGenerate
  \/ ClickReset
  \/ SuggestionStep
  \/ FusionStep
  \/ handleDownload
  \/ DownloadImageError
  \/ \E hasContext \in BOOLEAN : DownloadImageLoad(hasContext)
  \/ \E hasBlob \in BOOLEAN : DownloadBlob(hasBlob)

\* the application as the user drives it
Spec == Init /\ [][Next]_vars

\* handleGenerate called whatever the button shows: the case its own check of
\* App.tsx:114-120 is written for
CallHandleGenerate == handleGenerate

NextDirect == Next \/ CallHandleGenerate

\* the application with handleGenerate also called directly
SpecDirect == Init /\ [][NextDirect]_vars

\* the application when every call of generateFusedImage settles: the await
\* of App.tsx:126 then ends, and the event loop runs the rest of
\* handleGenerate
SpecResolving == Init /\ [][Next]_vars /\ WF_vars(FusionStep)

\* ------------------------------------------ properties of the application
BothImages == characterImage # NoImage /\ productImage # NoImage

\* C1: the dynamic suggestions in the state are never those produced for a
\* pair of images other than the pair now selected: the result of a fetch
\* for a replaced pair is discarded when it arrives.
C1_StaleSuggestionsDiscarded ==
  (BothImages /\ dynamicSuggestions # <<>>)
    => dynamicSuggestions = SuggestionsFor(characterImage, productImage)

\* C2: at most one fusion attempt is pending at any time.
C2_OneFusionAttempt == fusionAttempts <= 1

\* C3: an attempt pending across a Reset is abandoned.  With no image
\* selected every pending attempt is one: an attempt starts only with both
\* images, and only Reset takes an image away.  So when an attempt ends while
\* no image is selected, the generated image, the error and the loading flag
\* stay as they are.
C3_AbandonedAttemptIgnored ==
  [][(characterImage = NoImage /\ productImage = NoImage /\ FusionStep)
       => (generatedImage' = generatedImage /\ error' = error
           /\ isLoading' = isLoading)]_vars

\* C7: with an image missing no step starts a fusion attempt or sets the
\* loading flag, and handleGenerate sets the missing-images error.
C7_GenerateNeedsBothImages ==
  [][/\ ~BothImages => (fusionAttempts' <= fusionAttempts /\ (isLoading' => isLoading))
     /\ (~BothImages /\ handleGenerate) => error' = MissingImages]_vars

\* handleGenerate ran with an image missing: the error is shown and nothing
\* is pending
C7_Witness ==
  /\ ~BothImages
  /\ error = MissingImages
  /\ fusionAttempts = 0
  /\ ~isLoading

\* what Reset leaves
Cleared ==
  /\ characterImage = NoImage
  /\ productImage = NoImage
  /\ generatedImage = NoUrl
  /\ error = Null
  /\ prompt = <<>>
  /\ outputAspectRatio = "original"

\* C9: every Reset, pending generation or suggestion fetch or not, ends with
\* both images, the generated image and the error null, the instruction text
\* empty and the aspect ratio "original".
C9_ResetClears == [][handleReset => Cleared']_vars

\* the state a Reset left while a fusion attempt and a suggestion fetch were
\* pending
C9_Witness ==
  /\ Cleared
  /\ fusionAttempts > 0
  /\ suggestionFetches # EmptyBag

\* C10: the generated image and the error are never both non-null.
C10_ImageXorError == ~(generatedImage # NoUrl /\ error # Null)


\* C11: while a fusion attempt is pending (from its trigger until it
\* resolves) the generated image and the error are both null.
C11_PendingAttemptHasNoResult ==
  fusionAttempts > 0 => (generatedImage = NoUrl /\ error = Null)

\* a pending fetchSuggestions ends in its catch
SuggestionFails ==
  \E call \in BagToSet(suggestionFetches) :
    \E o \in Settlements[call] : IsThrown(o) /\ SuggestionSettles(call, o)

\* a fetchSuggestions is started and its call throws at once
SuggestionFailsAtOnce ==
  /\ apiKey = <<>>
  /\ BothImages'
  /\ \E f \in Files : setCharacterImage(f) \/ setProductImage(f)

\* C15: a suggestion fetch that fails (no credential, a failed read, a failed
\* request, a response that does not parse) leaves the error, the generated
\* image and the loading flag as they were, and leaves the dynamic
\* suggestions empty: the suggestions displayed are the static list.
C15_FailedFetchSwallowed ==
  [][(SuggestionFails \/ SuggestionFailsAtOnce)
       => /\ error' = error
          /\ generatedImage' = generatedImage
          /\ isLoading' = isLoading
          /\ dynamicSuggestions' = <<>>
          /\ suggestionsToShow' = staticSuggestions]_vars

\* a step of the suggestion path: a fetch starts with the selection of an
\* image, or a pending fetch ends
SuggestionPathStep ==
  \/ \E f \in Files : setCharacterImage(f) \/ setProductImage(f)
  \/ SuggestionStep

\* C16: the suggestion fetch and the fusion call are not coupled.  Whatever
\* the suggestion fetches do (pending, returned, failed), the Generate button
\* is enabled whenever both images are present and no attempt is pending;
\* and no step of the suggestion path changes the generated image, the
\* error, the loading flag or the pending attempts, so an attempt ends as it
\* would without any fetch.
C16_FetchNeverBlocksFusion ==
  /\ []((BothImages /\ fusionAttempts = 0) => ~isButtonDisabled)
  /\ [][SuggestionPathStep
          => UNCHANGED <<generatedImage, error, isLoading, fusionAttempts>>]_vars

\* an attempt has delivered its image while a suggestion fetch was pending,
\* and the button is enabled again with the fetch still pending
C16_Witness ==
  /\ suggestionFetches # EmptyBag
  /\ isSuggestionsLoading
  /\ BothImages
  /\ generatedImage # NoUrl
  /\ fusionAttempts = 0
  /\ ~isButtonDisabled

\* C17: every failure of a fusion attempt ends in handleGenerate's catch with
\* the loading flag cleared and one error shown: the content-policy error
\* for a safety block, the generation-unsuccessful error for a response
\* without image, the generic unexpected-error message for a failed request
\* (or read), and for a missing credential a configuration error, which is
\* none of those three.
C17_FailuresMapped ==
  [][/\ \A o \in FusionSettlements :
          (IsThrown(o) /\ FusionSettles(o))
            => /\ ~isLoading'
               /\ error' = IF o.error.message = SafetyMessage
                           THEN ContentPolicyViolation
                           ELSE IF o.error.message = NoImageMessage
                           THEN GenerationUnsuccessful
                           ELSE SomethingWentWrong
     /\ (apiKey = <<>> /\ BothImages /\ ClickGenerate)
          => /\ ~isLoading'
             /\ error' \notin { Null, ContentPolicyViolation,
                                GenerationUnsuccessful, SomethingWentWrong }]_vars

\* an image is selected, or replaced
SelectsImage == \E f \in Files : setCharacterImage(f) \/ setProductImage(f)

\* the fetches pending for the pair (c, p)
FetchesFor(b, c, p) ==
  { call \in BagToSet(b) :
      /\ call.fn = SuggestFn
      /\ call.characterImageFile = c
      /\ call.productImageFile = p }

C19_AttemptEventuallyResolves ==
  /\ isLoading ~> ~isLoading
  /\ [][FusionStep
          => /\ ~isLoading'
             /\ (generatedImage' # NoUrl \/ error' # Null)]_vars

\* an attempt was triggered and has resolved with an image
C19_Witness ==
  /\ BothImages
  /\ fusionAttempts = 0
  /\ ~isLoading
  /\ generatedImage # NoUrl
  /\ error = Null

\* C21: the loading flag is true exactly when a fusion attempt is pending.
C21_LoadingIffAttemptPending == isLoading <=> fusionAttempts > 0

\* C22: while a suggestion fetch for the selected pair of images is pending
\* the suggestions-pending flag is true (the end of a superseded fetch does
\* not clear it), and with no suggestion fetch pending the flag is false.
C22_SuggestionsLoadingTracksFetch ==
  /\ (BothImages
        /\ FetchesFor(suggestionFetches, characterImage, productImage) # {})
       => isSuggestionsLoading
  /\ suggestionFetches = EmptyBag => ~isSuggestionsLoading

\* ------------------------------------- one service call, step by step
\* the caller is about to call fn with these arguments
SvcInit ==
  /\ apiKey \in ApiKeys
  /\ AppInit
  /\ svc \in [stage : {"args"},
              fn : {SuggestFn, FuseFn},
              characterImageFile : Files,
              productImageFile : Files,
              userPrompt : Prompts,
              outputAspectRatio : Ratios,
              state : {Null},
              received : {Null}]

\* the call is made and runs to its first await, or throws.  The caller
\* passes the aspect ratio as a fourth argument (App.tsx:126);
\* generateFusedImage declares three parameters, so no name is bound to it
SvcCall ==
  /\ svc.stage = "args"
  /\ svc' = [svc EXCEPT
       !.stage = "called",
       !.state =
         IF svc.fn = SuggestFn
         THEN generatePromptSuggestions(apiKey, svc.characterImageFile,
                                        svc.productImageFile)
         ELSE generateFusedImage(apiKey, svc.characterImageFile,
                                 svc.productImageFile, svc.userPrompt)]
  /\ UNCHANGED <<apiKey, appVars>>

\* a pending file read ends
SvcRead ==
  /\ svc.stage = "called"
  /\ IsPending(svc.state)
  /\ svc.state.call.pc \in {"read1", "read2"}
  /\ \E ok \in BOOLEAN : svc' = [svc EXCEPT !.state = readDone(svc.state.call, ok)]
  /\ UNCHANGED <<apiKey, appVars>>

\* the request settles
SvcRespond ==
  /\ svc.stage = "called"
  /\ IsPending(svc.state)
  /\ svc.state.call.pc = "call"
  /\ \E r \in ResponsesTo(svc.state.call) :
       svc' = [svc EXCEPT !.state = responded(svc.state.call, r),
                          !.received = r]
  /\ UNCHANGED <<apiKey, appVars>>

SvcNext == SvcCall \/ SvcRead \/ SvcRespond

SpecService == SvcInit /\ [][SvcNext]_vars

\* ------------------------------------------- properties of the service calls
\* the fusion response the followed call received, if it received one
GotFusionResponse ==
  /\ svc.stage = "called"
  /\ svc.fn = FuseFn
  /\ svc.received # Null
  /\ ~svc.received.failed

\* the response carries a block indicator, read off the response itself
BlockIndicated(r) ==
  \/ r.promptFeedback # Null /\ r.promptFeedback.blockReason # <<>>
  \/ /\ r.candidates # Null
     /\ Len(r.candidates.items) >= 1
     /\ r.candidates.items[1].finishReason = <<"SAFETY">>

\* the segments of the first candidate, read off the response itself
SegmentsOf(r) ==
  IF r.candidates = Null \/ r.candidates.items = <<>> THEN <<>>
  ELSE IF r.candidates.items[1].content = Null THEN <<>>
  ELSE IF r.candidates.items[1].content.parts = Null THEN <<>>
  ELSE r.candidates.items[1].content.parts.items

HasImage(seg) == seg.inlineData # Null

\* C4: a fusion response whose prompt-level blockReason is set or whose first
\* candidate finished for safety makes generateFusedImage throw the safety
\* error, whether or not a segment of it carries inline image data.
C4_SafetyBlockWins ==
  (GotFusionResponse /\ BlockIndicated(svc.received.response))
    => svc.state = Threw(ErrorOf(SafetyMessage))

\* a blocked response that also carries an image was answered with the
\* safety error
C4_Witness ==
  /\ GotFusionResponse
  /\ BlockIndicated(svc.received.response)
  /\ \E i \in 1 .. Len(SegmentsOf(svc.received.response)) :
       HasImage(SegmentsOf(svc.received.response)[i])
  /\ svc.state = Threw(ErrorOf(SafetyMessage))

\* C5: a fusion response with no block indicator and an image-bearing segment
\* makes generateFusedImage return the data reference of the first such
\* segment in segment order: "data:" its media type ";base64," its bytes.
C5_FirstImageSegmentWins ==
  (GotFusionResponse /\ ~BlockIndicated(svc.received.response))
    => LET segs == SegmentsOf(svc.received.response)
       IN \A i \in 1 .. Len(segs) :
            (HasImage(segs[i]) /\ \A j \in 1 .. (i - 1) : ~HasImage(segs[j]))
              => svc.state =
                   Returned(<<"data:">> \o segs[i].inlineData.mimeType
                              \o <<";base64,">> \o segs[i].inlineData.data)

\* two image-bearing segments of different media types, the first returned
C5_Witness ==
  /\ GotFusionResponse
  /\ ~BlockIndicated(svc.received.response)
  /\ LET segs == SegmentsOf(svc.received.response)
     IN /\ Len(segs) >= 2
        /\ HasImage(segs[1]) /\ HasImage(segs[2])
        /\ segs[1].inlineData.mimeType # segs[2].inlineData.mimeType
        /\ svc.state = Returned(<<"data:">> \o segs[1].inlineData.mimeType
                                  \o <<";base64,">> \o segs[1].inlineData.data)

\* C6: a fusion response with no block indicator and no image-bearing segment
\* (no candidates and an empty segment list included) makes
\* generateFusedImage throw the no-image error, never return.
C6_NoImageProduced ==
  (/\ GotFusionResponse
   /\ ~BlockIndicated(svc.received.response)
   /\ \A i \in 1 .. Len(SegmentsOf(svc.received.response)) :
        ~HasImage(SegmentsOf(svc.received.response)[i]))
    => svc.state = Threw(ErrorOf(NoImageMessage))

\* a response without candidates was answered with the no-image error
C6_Witness ==
  /\ GotFusionResponse
  /\ svc.received.response.candidates = Null
  /\ svc.received.response.promptFeedback = Null
  /\ svc.state = Threw(ErrorOf(NoImageMessage))

\* C8: with the credential absent, a call of either service function has
\* thrown the configuration error by the time it first yields: it is never
\* pending on a file read or on the request.
C8_NoCredentialNoCall ==
  (apiKey = <<>> /\ svc.stage = "called")
    => /\ svc.state = Threw(ErrorOf(ApiKeyMessage))
       /\ svc.received = Null

\* generatePromptSuggestions was called without a credential and threw
C8_Witness ==
  /\ apiKey = <<>>
  /\ svc.stage = "called"
  /\ svc.fn = SuggestFn
  /\ svc.state = Threw(ErrorOf(ApiKeyMessage))

\* the followed call of generateFusedImage has built its request and sent it
FusionRequestSent ==
  /\ svc.stage = "called"
  /\ svc.fn = FuseFn
  /\ IsPending(svc.state)
  /\ svc.state.call.pc = "call"

\* the text part of the request sent
RequestText == svc.state.call.request.parts[3].text

\* the text names the ratio
Names(text, ratio) == \E i \in 1 .. Len(text) : text[i] = ratio

\* C12: the text of a fusion request names the selected aspect ratio when
\* that ratio is not "original" (the override clause), and names no ratio
\* when it is "original".
C12_AspectRatioOverride ==
  FusionRequestSent
    => /\ svc.outputAspectRatio # "original"
            => Names(RequestText, svc.outputAspectRatio)
       /\ svc.outputAspectRatio = "original"
            => \A i \in 2 .. Len(aspectRatios) : ~Names(RequestText, aspectRatios[i])

\* the text has no character but spaces
OnlySpaces(s) == \A i \in 1 .. Len(s) : s[i] = " "

\* what the request text carries as its goal: what stands between the
\* opening of the template and its four closing paragraphs
InstructionSent == SubSeq(RequestText, 2, Len(RequestText) - 4)

\* C13: the instruction of a fusion request is the user's text, character
\* for character, when that text has a character other than white space, and
\* otherwise the fixed default instruction.
C13_EffectiveInstruction ==
  FusionRequestSent
    => InstructionSent =
         IF OnlySpaces(svc.userPrompt)
         THEN <<"Make the character from the first image interact with or use the product from the second image.">>
         ELSE svc.userPrompt

\* a request built from a text of spaces only carries the default instruction
C13_Witness ==
  /\ FusionRequestSent
  /\ svc.userPrompt = <<" ", " ">>
  /\ InstructionSent # svc.userPrompt

\* the suggestion response the followed call received, if it received one
GotSuggestionResponse ==
  /\ svc.stage = "called"
  /\ svc.fn = SuggestFn
  /\ svc.received # Null
  /\ ~svc.received.failed

\* C14: once generatePromptSuggestions has received a response it returns and
\* never throws: the suggestion list of a well-formed response that has one,
\* and the empty list for a text that does not parse or has no suggestions.
C14_SuggestionsNeverRaise ==
  GotSuggestionResponse
    => LET text == svc.received.response.text
       IN svc.state =
            IF text.wellFormed /\ text.json # Null /\ text.json.suggestions # Null
            THEN Returned(text.json.suggestions.items)
            ELSE Returned(<<>>)

\* the followed call of generateFusedImage is waiting for a file read
FusionReading ==
  /\ svc.stage = "called"
  /\ svc.fn = FuseFn
  /\ IsPending(svc.state)
  /\ svc.state.call.pc \in {"read1", "read2"}

\* C20: in a call of generateFusedImage no request exists while a read is
\* pending, and the request sent carries the encoded bytes and the media
\* type of both files; a read that fails ends the call with the read's
\* failure thrown, no request built and no response ever received, and the
\* caller's catch turns that failure into an error.
C20_ReadsBeforeRequest ==
  /\ [](FusionReading
          => svc.state.call.request = Null /\ svc.received = Null)
  /\ [](FusionRequestSent
          => LET parts == svc.state.call.request.parts
             IN /\ parts[1].inlineData.data = FileBytes(svc.characterImageFile)
                /\ parts[1].inlineData.mimeType = FileType(svc.characterImageFile)
                /\ parts[2].inlineData.data = FileBytes(svc.productImageFile)
                /\ parts[2].inlineData.mimeType = FileType(svc.productImageFile))
  /\ [][(FusionReading /\ SvcRead /\ ~IsPending(svc'.state))
          => /\ svc'.state = Threw(ReadFailure)
             /\ svc'.received = Null
             /\ errorFor(svc'.state.error) = SomethingWentWrong]_vars

\* a read of a call of generateFusedImage failed: the call has thrown the
\* read's failure and received no response
C20_Witness ==
  /\ svc.stage = "called"
  /\ svc.fn = FuseFn
  /\ svc.state = Threw(ReadFailure)
  /\ svc.received = Null

====
